---- MODULE Spec2Model ----
(***************************************************************************)
(* EcoStep carbon footprint dashboard (src/04-merged.py).                  *)
(*                                                                         *)
(* Numbers.  The program computes with reals; the model keeps them exact   *)
(* as fixed-point integers:                                                *)
(*   - litres and hours are counted in halves (the sliders' step, 0.5);    *)
(*   - a mass is counted in units of 1/200000 kg, so KG units are 1 kg;    *)
(*   - an energy is counted in units of 1/200 kWh;                         *)
(*   - PETROL_FACTOR, DIESEL_FACTOR are in 1e-5 kg per litre, APPLIANCE_KW *)
(*     in 1/100 kWh per hour and GRID_FACTOR in 1/1000 kg per kWh, so that *)
(*     every product of the code is the same product here, with no         *)
(*     rescaling: halves * 1e-5 kg = 1/200000 kg, halves * 1/100 kWh =     *)
(*     1/200 kWh, 1/200 kWh * 1/1000 kg = 1/200000 kg.                     *)
(* A quotient is kept exact as a mixed number (see Quot).                  *)
(*                                                                         *)
(* Strings.  A string the code searches with `in` is a sequence of         *)
(* characters; a string the code only uses as a dictionary key is a TLA+   *)
(* string.                                                                 *)
(***************************************************************************)
EXTENDS Integers, Sequences, FiniteSets, TLC

VARIABLES
    session_state,  \* st.session_state: the seven input keys
    results,        \* the dict calc_totals returned in the last run of main
    elec_kwh,       \* the kWh calc_electricity returned in the last run of main
    tip,            \* the outcome of the tip lookup in the last run of main
    call,           \* a direct call of one calculation function: its name and arguments
    ret             \* that call's outcome: pending, a returned value or a raised exception

vars == <<session_state, results, elec_kwh, tip, call, ret>>

----------------------------------------------------------------------------
(* Units and strings *)

KG == 2 * 10^5          \* units of mass in one kilogram

Petrol == <<"P", "e", "t", "r", "o", "l">>
Diesel == <<"D", "i", "e", "s", "e", "l">>
NoneWord == <<"N", "o", "n", "e">>
\* "None (EV / Walk / Cycle)"
NoneOption ==
    NoneWord \o <<" ", "(", "E", "V", " ", "/", " ", "W", "a", "l", "k", " ", "/", " ",
                  "C", "y", "c", "l", "e", ")">>

\* Python's `needle in hay` on strings
Contains(needle, hay) ==
    \E i \in 1..(Len(hay) - Len(needle) + 1) :
        SubSeq(hay, i, i + Len(needle) - 1) = needle

\* An outcome of a call
Return(v) == [kind |-> "return", value |-> v]
Raise(exc, arg) == [kind |-> "raise", exc |-> exc, arg |-> arg]
Pending == [kind |-> "pending"]

\* The exact quotient a / b for b > 0, as the mixed number whole + rem/den
\* with 0 <= rem < den.  It is negative exactly when whole < 0.
Quot(a, b) == [whole |-> a \div b, rem |-> a % b, den |-> b]
Zero == [whole |-> 0, rem |-> 0, den |-> 1]

----------------------------------------------------------------------------
(* Emission factors *)

PETROL_FACTOR == 206916     \* 2.06916 kg CO2e per litre
DIESEL_FACTOR == 257082     \* 2.57082 kg CO2e per litre

GRID_FACTOR == 430          \* 0.43 kg CO2e per kWh

\* the dict's keys in insertion order, which is the order `for a in APPLIANCE_KW` visits
APPLIANCE_ORDER == <<"AC (1.5 Ton)", "TV (LED)", "Laptop", "Lights (LED)">>

APPLIANCE_KW ==
    [a \in {"AC (1.5 Ton)", "TV (LED)", "Laptop", "Lights (LED)"} |->
        CASE a = "AC (1.5 Ton)" -> 150      \* 1.50
          [] a = "TV (LED)"     -> 10       \* 0.10
          [] a = "Laptop"       -> 5        \* 0.05
          [] a = "Lights (LED)" -> 1]       \* 0.01

DIET_FACTORS ==
    [c \in {"High Meat (Beef / Lamb)", "Mixed (Poultry / Fish)",
            "Vegetarian / Vegan (Plant-based)"} |->
        CASE c = "High Meat (Beef / Lamb)"          -> 8 * KG           \* 8.0
          [] c = "Mixed (Poultry / Fish)"           -> 4 * KG           \* 4.0
          [] c = "Vegetarian / Vegan (Plant-based)" -> (15 * KG) \div 10]  \* 1.5

TREE_DAILY_ABS == (57 * KG) \div 1000     \* 0.057 kg
PHONE_CHARGE_KG == (8 * KG) \div 1000     \* 0.008 kg
KM_CAR_FACTOR == (170 * KG) \div 1000     \* 0.170 kg

GRADE_LOW == 12 * KG        \* 12.0
GRADE_HIGH == 50 * KG       \* 50.0

----------------------------------------------------------------------------
(* The calculation functions *)

\* calc_transport with its factors exchanged
calc_transport_swapped(fuel_type, litres) ==
    IF Contains(Petrol, fuel_type) THEN litres * DIESEL_FACTOR
    ELSE IF Contains(Diesel, fuel_type) THEN litres * PETROL_FACTOR
    ELSE 0

\* calc_transport with `else` in the place of `elif "Diesel" in fuel_type`
calc_transport_else(fuel_type, litres) ==
    IF Contains(Petrol, fuel_type) THEN litres * PETROL_FACTOR
    ELSE litres * DIESEL_FACTOR

calc_transport(fuel_type, litres) ==
    IF Contains(Petrol, fuel_type) THEN litres * PETROL_FACTOR
    ELSE IF Contains(Diesel, fuel_type) THEN litres * DIESEL_FACTOR
    ELSE 0

\* SumKwh leaving out the last appliance
RECURSIVE SumKwh_short(_, _)
SumKwh_short(hours, i) ==
    IF i >= Len(APPLIANCE_ORDER) THEN 0
    ELSE hours[APPLIANCE_ORDER[i]] * APPLIANCE_KW[APPLIANCE_ORDER[i]]
         + SumKwh_short(hours, i + 1)

\* sum(hours[a] * APPLIANCE_KW[a] for a in APPLIANCE_KW), from the i-th appliance on
RECURSIVE SumKwh(_, _)
SumKwh(hours, i) ==
    IF i > Len(APPLIANCE_ORDER) THEN 0
    ELSE hours[APPLIANCE_ORDER[i]] * APPLIANCE_KW[APPLIANCE_ORDER[i]] + SumKwh(hours, i + 1)

\* calc_electricity reading hours.get(a, 0): it sums the entries that are present
calc_electricity_get(hours) ==
    LET get == [a \in DOMAIN APPLIANCE_KW |-> IF a \in DOMAIN hours THEN hours[a] ELSE 0]
        kwh == SumKwh(get, 1)
    IN  Return(<<kwh, kwh * GRID_FACTOR>>)

\* hours[a] raises KeyError at the first appliance the mapping lacks
calc_electricity(hours) ==
    LET missing == {i \in 1..Len(APPLIANCE_ORDER) : APPLIANCE_ORDER[i] \notin DOMAIN hours}
        first == CHOOSE i \in missing : \A j \in missing : i <= j
        kwh == SumKwh(hours, 1)
    IN  IF missing # {} THEN Raise("KeyError", APPLIANCE_ORDER[first])
        ELSE Return(<<kwh, kwh * GRID_FACTOR>>)

\* calc_diet falling back to the Mixed factor
calc_diet_mixed(choice) ==
    IF choice \in DOMAIN DIET_FACTORS THEN DIET_FACTORS[choice]
    ELSE DIET_FACTORS["Mixed (Poultry / Fish)"]

\* calc_diet looking the plant-based category up under a key the table lacks
calc_diet_vegan(choice) ==
    IF choice \in DOMAIN DIET_FACTORS \ {"Vegetarian / Vegan (Plant-based)"}
    THEN DIET_FACTORS[choice] ELSE 0

\* DIET_FACTORS.get(choice, 0.0)
calc_diet(choice) ==
    IF choice \in DOMAIN DIET_FACTORS THEN DIET_FACTORS[choice] ELSE 0

\* ContextEquivalent without the total > 0 guard
ContextEquivalent_unguarded(total, factor) == Quot(total, factor)

\* trees, phones, km_eq: total / factor if total > 0 else 0
ContextEquivalent(total, factor) ==
    IF total > 0 THEN Quot(total, factor) ELSE Zero

\* Grade with total <= GRADE_LOW as its first test
Grade_inclusive(total) ==
    IF total <= GRADE_LOW THEN <<"Low", "Excellent", "#10b981">>
    ELSE IF total <= GRADE_HIGH THEN <<"Moderate", "Good", "#f59e0b">>
    ELSE <<"High", "Needs Work", "#ef4444">>

\* the if / elif / else on total: <<grade, badge, badge_color>>
Grade(total) ==
    IF total < GRADE_LOW THEN <<"Low", "Excellent", "#10b981">>
    ELSE IF total <= GRADE_HIGH THEN <<"Moderate", "Good", "#f59e0b">>
    ELSE <<"High", "Needs Work", "#ef4444">>

\* PyMax keeping the last of the greatest items
RECURSIVE PyMax_last(_, _, _)
PyMax_last(items, i, best) ==
    IF i > Len(items) THEN best
    ELSE PyMax_last(items, i + 1, IF items[i][2] >= best[2] THEN items[i] ELSE best)

\* Python's max(items, key=lambda x: x[1]): a later item replaces the best so
\* far only when its key is strictly greater
RECURSIVE PyMax(_, _, _)
PyMax(items, i, best) ==
    IF i > Len(items) THEN best
    ELSE PyMax(items, i + 1, IF items[i][2] > best[2] THEN items[i] ELSE best)

Dominant(transport, electricity, diet) ==
    LET items == << <<"Transport", transport>>, <<"Electricity", electricity>>,
                    <<"Diet", diet>> >>
    IN  PyMax(items, 2, items[1])[1]

Total(transport, electricity, diet) == transport + electricity + diet

\* Monthly over a month of 31 days
Monthly_31(total) == total * 31

Monthly(total) == total * 30

calc_totals(transport, electricity, diet) ==
    LET total == Total(transport, electricity, diet)
        g == Grade(total)
    IN  [transport   |-> transport,
         electricity |-> electricity,
         diet        |-> diet,
         total       |-> total,
         monthly     |-> Monthly(total),
         trees       |-> ContextEquivalent(total, TREE_DAILY_ABS),
         phones      |-> ContextEquivalent(total, PHONE_CHARGE_KG),
         km_eq       |-> ContextEquivalent(total, KM_CAR_FACTOR),
         grade       |-> g[1],
         badge       |-> g[2],
         badge_color |-> g[3],
         dominant    |-> Dominant(transport, electricity, diet)]

\* the tips table of smart_tip: category -> <<icon, text>> (the icons are empty
\* strings; the texts are written here in ASCII)
TIPS ==
    [d \in {"Transport", "Electricity", "Diet"} |->
        CASE d = "Transport" ->
                <<"", "Your biggest footprint driver is **Transport**. Switching just 2 days/week to public transit or cycling can cut your transport emissions by up to **40%**.">>
          [] d = "Electricity" ->
                <<"", "Your biggest driver is **Energy Use**. Raising your AC thermostat by 2 C and switching to LED bulbs could reduce your electricity emissions significantly.">>
          [] d = "Diet" ->
                <<"", "Your biggest driver is **Diet**. One meat-free day per week saves roughly **0.5 tonnes CO2e/year** - equivalent to planting 9 trees.">>]

\* Python's None
None == [kind |-> "None"]

\* smart_tip over a table that lacks the "Diet" entry
smart_tip_nodiet(dominant) ==
    IF dominant \in DOMAIN TIPS \ {"Diet"} THEN TIPS[dominant] ELSE None

\* tips.get(dominant): None for a key the table lacks
smart_tip(dominant) ==
    IF dominant \in DOMAIN TIPS THEN TIPS[dominant] ELSE None

----------------------------------------------------------------------------
(* The page: session state, widgets and one run of main *)

\* initialize_session_state's defaults (litres and hours in halves)
DEFAULTS ==
    [fuel_type    |-> Petrol,
     fuel_litres  |-> 6,
     ac_hours     |-> 4,
     tv_hours     |-> 4,
     laptop_hours |-> 8,
     light_hours  |-> 6,
     diet_choice  |-> "Mixed (Poultry / Fish)"]

\* the options of the "Fuel Type" selectbox
FUEL_OPTIONS == {Petrol, Diesel, NoneOption}

\* the "Litres consumed today" slider: 0.0 .. 80.0, step 0.5
FUEL_SLIDER == [key |-> "fuel_litres", lo |-> 0, hi |-> 160]

\* the appliance sliders: session key and range of each appliance, step 0.5
HOUR_SLIDERS ==
    [a \in {"AC (1.5 Ton)", "TV (LED)", "Laptop", "Lights (LED)"} |->
        CASE a = "AC (1.5 Ton)" -> [key |-> "ac_hours",     lo |-> 0, hi |-> 36]
          [] a = "TV (LED)"     -> [key |-> "tv_hours",     lo |-> 0, hi |-> 32]
          [] a = "Laptop"       -> [key |-> "laptop_hours", lo |-> 0, hi |-> 32]
          [] a = "Lights (LED)" -> [key |-> "light_hours",  lo |-> 0, hi |-> 48]]

\* the slider is drawn only when the fuel type does not contain "None"
FuelSliderShown(ss) == ~Contains(NoneWord, ss.fuel_type)

\* TransportSection without the write to st.session_state["fuel_litres"]
TransportSection_keep(ss) ==
    IF FuelSliderShown(ss)
    THEN [session |-> ss, fuel_litres |-> ss.fuel_litres]
    ELSE [session |-> ss, fuel_litres |-> 0]

\* the transport expander: the session state it leaves, and fuel_litres
TransportSection(ss) ==
    IF FuelSliderShown(ss)
    THEN [session |-> ss, fuel_litres |-> ss.fuel_litres]
    ELSE [session |-> [ss EXCEPT !.fuel_litres = 0], fuel_litres |-> 0]

\* hours_used, filled from the four sliders
HoursUsed(ss) ==
    [a \in DOMAIN HOUR_SLIDERS |-> ss[HOUR_SLIDERS[a].key]]

\* the insights section: tip_icon, tip_text = smart_tip(dominant), reached
\* only if total > 0; unpacking None raises TypeError
TipSection(res) ==
    IF res.total > 0
    THEN IF smart_tip(res.dominant) = None
         THEN Raise("TypeError", res.dominant)
         ELSE Return(smart_tip(res.dominant))
    ELSE [kind |-> "skipped"]

\* one run of main over the session state ss: the session state it leaves and
\* what it shows (an exception of calc_electricity would end the run)
main(ss) ==
    LET tr == TransportSection(ss)
        transport_co2 == calc_transport(ss.fuel_type, tr.fuel_litres)
        el == calc_electricity(HoursUsed(ss))
        diet_co2 == calc_diet(ss.diet_choice)
        res == calc_totals(transport_co2, el.value[2], diet_co2)
    IN  IF el.kind = "raise"
        THEN [session |-> tr.session, results |-> el, elec_kwh |-> el,
              tip |-> [kind |-> "skipped"]]
        ELSE [session |-> tr.session, results |-> res, elec_kwh |-> el.value[1],
              tip |-> TipSection(res)]

\* no direct call is in progress while the page runs
NoCall == [fn |-> "none"]

\* the positions of a slider the model moves it to: the lowest ones, the
\* default and the highest
MaxSlide == 2

SliderPositions(slider) ==
    {v \in slider.lo..slider.hi :
        v <= slider.lo + MaxSlide \/ v = DEFAULTS[slider.key] \/ v = slider.hi}

\* Rerun updating the totals incrementally: transport is recomputed, electricity
\* and diet are taken from the results of the run before
Rerun_incremental(ss) ==
    LET run == main(ss)
    IN  /\ session_state' = run.session
        /\ results' = calc_totals(run.results.transport, results.electricity, results.diet)
        /\ elec_kwh' = elec_kwh
        /\ tip' = run.tip
        /\ UNCHANGED <<call, ret>>

\* a widget's value changes, and the script runs again from the top
Rerun(ss) ==
    \E run \in {main(ss)} :
        /\ session_state' = run.session
        /\ results' = run.results
        /\ elec_kwh' = run.elec_kwh
        /\ tip' = run.tip
        /\ UNCHANGED <<call, ret>>

SelectFuelType ==
    \E f \in FUEL_OPTIONS :
        /\ f # session_state.fuel_type
        /\ Rerun([session_state EXCEPT !.fuel_type = f])

SlideFuelLitres ==
    \E v \in SliderPositions(FUEL_SLIDER) :
        /\ FuelSliderShown(session_state)
        /\ v # session_state.fuel_litres
        /\ Rerun([session_state EXCEPT !.fuel_litres = v])

SlideHours ==
    \E a \in DOMAIN HOUR_SLIDERS : \E v \in SliderPositions(HOUR_SLIDERS[a]) :
        /\ v # session_state[HOUR_SLIDERS[a].key]
        /\ Rerun([session_state EXCEPT ![HOUR_SLIDERS[a].key] = v])

SelectDiet ==
    \E d \in DOMAIN DIET_FACTORS :
        /\ d # session_state.diet_choice
        /\ Rerun([session_state EXCEPT !.diet_choice = d])

\* the first run of the script, over the defaults
Init ==
    /\ session_state = main(DEFAULTS).session
    /\ results = main(DEFAULTS).results
    /\ elec_kwh = main(DEFAULTS).elec_kwh
    /\ tip = main(DEFAULTS).tip
    /\ call = NoCall
    /\ ret = Pending

Next == SelectFuelType \/ SlideFuelLitres \/ SlideHours \/ SelectDiet

Spec == Init /\ [][Next]_vars

----------------------------------------------------------------------------
(* The calculation functions called directly, on arguments the page never
   passes: unknown strings, incomplete mappings, negative and boundary values *)

\* fuel type strings: the three options, and strings that are none of them
FuelStrings ==
    {Petrol, Diesel, NoneOption,
     <<>>,                                              \* ""
     <<"p", "e", "t", "r", "o", "l">>,                  \* "petrol"
     <<"P", "e", "t", "r", "o">>,                       \* "Petro"
     <<"G", "a", "s">>,                                 \* "Gas"
     Petrol \o <<" ", "(", "E", "1", "0", ")">>,        \* "Petrol (E10)"
     <<"B", "i", "o", "-">> \o Diesel,                  \* "Bio-Diesel"
     Diesel \o <<"/">> \o Petrol,                       \* "Diesel/Petrol"
     NoneWord}                                          \* "None"

\* litres passed to calc_transport, in halves: -MaxLitres .. MaxLitres
MaxLitres == 4

\* hours passed to calc_electricity, in halves: 0 .. MaxHours
MaxHours == 2

\* the keys an hours mapping may have: the four appliances and one more
HourKeys == DOMAIN APPLIANCE_KW \cup {"Fridge"}

\* diet strings: the three categories, and strings that are none of them
DietStrings ==
    DOMAIN DIET_FACTORS \cup {"", "Mixed", "mixed (poultry / fish)", "Vegan", "High Meat"}

\* values passed to calc_totals: within MaxOff units of a multiple of 2 kg,
\* from -2 kg to 2 * MaxGrid kg
MaxGrid == 9
MaxOff == 1

TotalsArgs ==
    {g * 2 * KG + o : g \in (-1)..MaxGrid, o \in (-MaxOff)..MaxOff}

CallInit ==
    /\ session_state = main(DEFAULTS).session
    /\ results = main(DEFAULTS).results
    /\ elec_kwh = main(DEFAULTS).elec_kwh
    /\ tip = main(DEFAULTS).tip
    /\ ret = Pending
    /\ \/ \E f \in FuelStrings, l \in (-MaxLitres)..MaxLitres :
            call = [fn |-> "calc_transport", fuel_type |-> f, litres |-> l]
       \/ \E keys \in SUBSET HourKeys : \E h \in [keys -> 0..MaxHours] :
            call = [fn |-> "calc_electricity", hours |-> h]
       \/ \E c \in DietStrings :
            call = [fn |-> "calc_diet", choice |-> c]
       \/ \E t \in TotalsArgs, e \in TotalsArgs, d \in TotalsArgs :
            call = [fn |-> "calc_totals", transport |-> t, electricity |-> e, diet |-> d]

Returns(outcome) ==
    /\ ret = Pending
    /\ ret' = outcome
    /\ UNCHANGED <<session_state, results, elec_kwh, tip, call>>

CallTransport ==
    /\ call.fn = "calc_transport"
    /\ Returns(Return(calc_transport(call.fuel_type, call.litres)))

CallElectricity ==
    /\ call.fn = "calc_electricity"
    /\ Returns(calc_electricity(call.hours))

CallDiet ==
    /\ call.fn = "calc_diet"
    /\ Returns(Return(calc_diet(call.choice)))

CallTotals ==
    /\ call.fn = "calc_totals"
    /\ Returns(Return(calc_totals(call.transport, call.electricity, call.diet)))

CallNext == CallTransport \/ CallElectricity \/ CallDiet \/ CallTotals

CallSpec == CallInit /\ [][CallNext]_vars

----------------------------------------------------------------------------
(* Properties of the calculation functions, checked under CallSpec *)

Returned(fn) == call.fn = fn /\ ret.kind = "return"
Ended(fn) == call.fn = fn /\ ret.kind # "pending"

\* the sum of the three values passed to calc_totals
ArgsTotal == call.transport + call.electricity + call.diet

\* C1: the grade is Low exactly when total < 12.0, Moderate exactly when
\* 12.0 <= total <= 50.0 and High exactly when total > 50.0; every total gets
\* exactly one of the three grades.
C1_GradeBands ==
    Returned("calc_totals") =>
        /\ ret.value.grade \in {"Low", "Moderate", "High"}
        /\ ret.value.grade = "Low" <=> ArgsTotal < 12 * KG
        /\ ret.value.grade = "Moderate" <=> (12 * KG <= ArgsTotal /\ ArgsTotal <= 50 * KG)
        /\ ret.value.grade = "High" <=> ArgsTotal > 50 * KG

\* a total of exactly 12.0 was graded
C1_Witness ==
    /\ Returned("calc_totals")
    /\ ArgsTotal = 12 * KG
    /\ ret.value.grade = "Moderate"

\* C2: the dominant category has the greatest of the three values, and is the
\* first such category in the order Transport, Electricity, Diet.
C2_DominantFirstMax ==
    Returned("calc_totals") =>
        LET order == <<"Transport", "Electricity", "Diet">>
            value == <<call.transport, call.electricity, call.diet>>
        IN  \E i \in 1..3 :
                /\ ret.value.dominant = order[i]
                /\ \A j \in 1..3 : value[j] <= value[i]
                /\ \A j \in 1..(i - 1) : value[j] < value[i]

\* electricity = diet > transport, and Electricity is dominant
C2_Witness ==
    /\ Returned("calc_totals")
    /\ call.electricity = call.diet
    /\ call.electricity > call.transport
    /\ ret.value.dominant = "Electricity"

\* C3: total is the sum of the three arguments, monthly is total * 30 and the
\* three category fields are the arguments.
C3_TotalsFields ==
    Returned("calc_totals") =>
        /\ ret.value.total = call.transport + call.electricity + call.diet
        /\ ret.value.monthly = (call.transport + call.electricity + call.diet) * 30
        /\ ret.value.transport = call.transport
        /\ ret.value.electricity = call.electricity
        /\ ret.value.diet = call.diet

\* three different arguments, one of them negative, with a total above zero
C3_Witness ==
    /\ Returned("calc_totals")
    /\ call.transport < 0
    /\ call.electricity > call.diet
    /\ call.diet > 0
    /\ ret.value.monthly > 0

\* the mixed number q is the exact quotient of total by den
IsQuotient(q, total, den) ==
    /\ q.den = den
    /\ 0 <= q.rem /\ q.rem < q.den
    /\ q.whole * q.den + q.rem = total

\* C4: each context-equivalent is total divided by its constant (0.057, 0.008,
\* 0.170) when total > 0 and is 0 when total <= 0; none is ever negative.
C4_ContextEquivalents ==
    Returned("calc_totals") =>
        LET constant == [trees  |-> (57 * KG) \div 1000,
                         phones |-> (8 * KG) \div 1000,
                         km_eq  |-> (170 * KG) \div 1000]
        IN  \A k \in DOMAIN constant :
                /\ ArgsTotal > 0 => IsQuotient(ret.value[k], ArgsTotal, constant[k])
                /\ ArgsTotal <= 0 => (ret.value[k].whole = 0 /\ ret.value[k].rem = 0)
                /\ ret.value[k].whole >= 0
                /\ ret.value[k].rem >= 0 /\ ret.value[k].den > 0

\* a negative total, from a negative argument, got 0 trees
C4_Witness ==
    /\ Returned("calc_totals")
    /\ ArgsTotal < 0
    /\ ret.value.trees.whole = 0
    /\ ret.value.trees.rem = 0

\* C5 as stated: every fuel string that is not exactly "Petrol" or "Diesel"
\* gives 0, for every litres value.
C5_NotExactlyRecognizedIsZero ==
    (Ended("calc_transport") /\ call.fuel_type \notin {Petrol, Diesel}) =>
        ret = Return(0)

\* C5, amended: every fuel string that contains neither "Petrol" nor "Diesel"
\* gives 0 without raising, for every litres value.
C5_UnmatchedFuelIsZero ==
    (Ended("calc_transport")
        /\ ~Contains(Petrol, call.fuel_type)
        /\ ~Contains(Diesel, call.fuel_type)) =>
        ret = Return(0)

\* "petrol", which contains neither word, with litres other than 0
C5_Witness ==
    /\ Ended("calc_transport")
    /\ call.fuel_type = <<"p", "e", "t", "r", "o", "l">>
    /\ call.litres # 0
    /\ ret = Return(0)

\* C6: for litres L >= 0, Petrol gives L * 2.06916 and Diesel L * 2.57082;
\* the None (EV / Walk / Cycle) kind gives 0 for any L.
C6_TransportFactors ==
    Ended("calc_transport") =>
        /\ (call.fuel_type = Petrol /\ call.litres >= 0) =>
                ret = Return(call.litres * 206916)
        /\ (call.fuel_type = Diesel /\ call.litres >= 0) =>
                ret = Return(call.litres * 257082)
        /\ call.fuel_type = NoneOption => ret = Return(0)

\* Diesel with the most litres
C6_Witness ==
    /\ Ended("calc_transport")
    /\ call.fuel_type = Diesel
    /\ call.litres = MaxLitres
    /\ ret = Return(MaxLitres * 257082)

Appliances == {"AC (1.5 Ton)", "TV (LED)", "Laptop", "Lights (LED)"}

\* C7: a mapping that lacks one of the four appliances makes calc_electricity
\* fail with a missing-key error; it returns no result.
C7_MissingApplianceRaises ==
    (Ended("calc_electricity") /\ ~(Appliances \subseteq DOMAIN call.hours)) =>
        /\ ret.kind = "raise"
        /\ ret.exc = "KeyError"
        /\ ret.arg \in Appliances \ DOMAIN call.hours

\* only the Laptop is missing, and the three others have hours
C7_Witness ==
    /\ Ended("calc_electricity")
    /\ DOMAIN call.hours = Appliances \ {"Laptop"}
    /\ \A a \in DOMAIN call.hours : call.hours[a] > 0
    /\ ret.kind = "raise"

\* C8: for non-negative hours of all four appliances, calc_electricity returns
\* (kWh, kg) with kWh = AC*1.50 + TV*0.10 + Laptop*0.05 + Lights*0.01 and
\* kg = kWh * 0.43.
C8_ElectricityFormula ==
    (Ended("calc_electricity")
        /\ Appliances \subseteq DOMAIN call.hours
        /\ \A a \in Appliances : call.hours[a] >= 0) =>
        LET kWh == call.hours["AC (1.5 Ton)"] * 150 + call.hours["TV (LED)"] * 10
                   + call.hours["Laptop"] * 5 + call.hours["Lights (LED)"] * 1
        IN  ret = Return(<<kWh, kWh * 430>>)

\* all four appliances have hours, each a different mix
C8_Witness ==
    /\ Ended("calc_electricity")
    /\ DOMAIN call.hours = Appliances
    /\ call.hours["AC (1.5 Ton)"] = 1
    /\ call.hours["TV (LED)"] = 2
    /\ call.hours["Laptop"] = 1
    /\ call.hours["Lights (LED)"] = 2
    /\ ret.kind = "return"
    /\ ret.value[1] = 177

\* C9: calc_diet returns 8.0 for High Meat, 4.0 for Mixed, 1.5 for Vegetarian
\* and 0 for every other input, without raising.
C9_DietFactors ==
    Ended("calc_diet") =>
        ret = Return(CASE call.choice = "High Meat (Beef / Lamb)" -> 8 * KG
                       [] call.choice = "Mixed (Poultry / Fish)" -> 4 * KG
                       [] call.choice = "Vegetarian / Vegan (Plant-based)" -> (15 * KG) \div 10
                       [] OTHER -> 0)

\* a string that is no category of the table
C9_Witness ==
    /\ Ended("calc_diet")
    /\ call.choice = "Vegan"
    /\ ret = Return(0)

----------------------------------------------------------------------------
(* Properties of the page, checked under Spec *)

\* C10: whatever the widgets are set to, the total shown is at least 1.5 kg,
\* so it is above 0 and the total > 0 guards are satisfied.
C10_TotalAtLeastDietFloor ==
    /\ results.total >= (15 * KG) \div 10
    /\ results.total > 0
    /\ results.trees.whole * results.trees.den + results.trees.rem = results.total

\* the least the widgets allow: no fuel, no hours, the plant-based diet
C10_Witness ==
    /\ session_state.fuel_type = NoneOption
    /\ \A a \in DOMAIN HOUR_SLIDERS : session_state[HOUR_SLIDERS[a].key] = 0
    /\ session_state.diet_choice = "Vegetarian / Vegan (Plant-based)"
    /\ results.total = (15 * KG) \div 10

\* C11: what is shown is calc_totals of calc_transport, calc_electricity and
\* calc_diet of the current inputs, whatever the inputs were before.
C11_ResultsOfCurrentInputs ==
    LET hours == [a \in Appliances |->
                    CASE a = "AC (1.5 Ton)" -> session_state.ac_hours
                      [] a = "TV (LED)"     -> session_state.tv_hours
                      [] a = "Laptop"       -> session_state.laptop_hours
                      [] a = "Lights (LED)" -> session_state.light_hours]
        transport == calc_transport(session_state.fuel_type, session_state.fuel_litres)
        electricity == calc_electricity(hours)
        diet == calc_diet(session_state.diet_choice)
    IN  /\ electricity.kind = "return"
        /\ elec_kwh = electricity.value[1]
        /\ results = calc_totals(transport, electricity.value[2], diet)

\* every input was changed since the first run: Diesel at 80 litres, no AC,
\* the High Meat diet
C11_Witness ==
    /\ session_state.fuel_type = Diesel
    /\ session_state.fuel_litres = 160
    /\ session_state.ac_hours = 0
    /\ session_state.tv_hours # 4
    /\ session_state.laptop_hours # 8
    /\ session_state.light_hours # 6
    /\ session_state.diet_choice = "High Meat (Beef / Lamb)"
    /\ results.transport = 160 * 257082
    /\ results.diet = 8 * KG

\* the default inputs: Petrol, 3.0 litres, AC 2h, TV 2h, Laptop 4h, Lights 3h, Mixed
DefaultInputs ==
    /\ session_state.fuel_type = Petrol
    /\ session_state.fuel_litres = 6
    /\ session_state.ac_hours = 4
    /\ session_state.tv_hours = 4
    /\ session_state.laptop_hours = 8
    /\ session_state.light_hours = 6
    /\ session_state.diet_choice = "Mixed (Poultry / Fish)"

\* n / 10^5 kg, in units of mass
Kg5(n) == n * 2

\* C12 as stated: the defaults yield transport 6.20748, kWh 3.43, electricity
\* 1.4749, diet 4.0, total 11.68228, monthly 350.4684, Low, Transport.
C12_DefaultsAsStated ==
    DefaultInputs =>
        /\ results.transport = Kg5(620748)
        /\ elec_kwh = 686
        /\ results.electricity = Kg5(147490)
        /\ results.diet = Kg5(400000)
        /\ results.total = Kg5(1168228)
        /\ results.monthly = Kg5(35046840)
        /\ results.grade = "Low"
        /\ results.dominant = "Transport"

\* C12, amended: the defaults yield transport 6.20748, kWh 3.43, electricity
\* 1.4749, diet 4.0, total 11.68238, monthly 350.4714, Low, Transport.
C12_DefaultsScenario ==
    DefaultInputs =>
        /\ results.transport = Kg5(620748)
        /\ elec_kwh = 686
        /\ results.electricity = Kg5(147490)
        /\ results.diet = Kg5(400000)
        /\ results.total = Kg5(1168238)
        /\ results.monthly = Kg5(35047140)
        /\ results.grade = "Low"
        /\ results.dominant = "Transport"

\* the default inputs, shown with their total
C12_Witness ==
    /\ DefaultInputs
    /\ results.total = Kg5(1168238)
    /\ elec_kwh = 686

\* C13: the tip lookup of main gets a defined <<icon, text>> pair, the entry
\* of the dominant category, and the three categories have three different texts.
C13_TipDefined ==
    /\ results.dominant \in {"Transport", "Electricity", "Diet"}
    /\ tip.kind = "return"
    /\ Len(tip.value) = 2
    /\ tip.value = TIPS[results.dominant]
    /\ \A d1, d2 \in {"Transport", "Electricity", "Diet"} :
            d1 # d2 => TIPS[d1][2] # TIPS[d2][2]

\* the Diet tip was looked up and shown
C13_Witness ==
    /\ results.dominant = "Diet"
    /\ tip = Return(TIPS["Diet"])

OtherInputs == {"ac_hours", "tv_hours", "laptop_hours", "light_hours", "diet_choice"}

\* C14: a run of main that sees the None option leaves fuel_litres = 0 and
\* transport = 0; selecting another fuel type changes no hours and no diet
\* choice; and a run that follows one with the None option, with Petrol or
\* Diesel selected again, shows litres = 0 and transport = 0.
C14_NoneResetsLitres ==
    [][/\ Contains(NoneWord, session_state'.fuel_type) =>
            (session_state'.fuel_litres = 0 /\ results'.transport = 0)
       /\ session_state'.fuel_type # session_state.fuel_type =>
            \A k \in OtherInputs : session_state'[k] = session_state[k]
       /\ (session_state.fuel_type = NoneOption
              /\ session_state'.fuel_type \in {Petrol, Diesel}) =>
            (session_state'.fuel_litres = 0 /\ results'.transport = 0)]_vars

\* the None option is selected, over hours and a diet that are not the defaults
C14_Witness ==
    /\ session_state.fuel_type = NoneOption
    /\ session_state.fuel_litres = 0
    /\ results.transport = 0
    /\ session_state.ac_hours = 36
    /\ session_state.diet_choice = "High Meat (Beef / Lamb)"

====
